---- MODULE Spec2Model ----
(***************************************************************************)
(* A model of midware (src/midware/core.py): the middleware engine         *)
(* (compose, middleware, named, mw_from_cm, wrap_and_call), the trace flag *)
(* _VERBOSE_MODE and the key-path helpers the engine uses (get_in,         *)
(* assoc_in).  Python's synchronous call stack is the variable `stack`;    *)
(* only the top frame runs.  A raised exception is the variable `exc`,     *)
(* which unwinds the stack frame by frame.                                 *)
(***************************************************************************)
EXTENDS Integers, Sequences, FiniteSets, TLC

VARIABLES
    verbose,    \* core._VERBOSE_MODE
    out,        \* lines printed to stdout since the current top-level call began
    stack,      \* the Python call stack, innermost frame last
    heap,       \* the context dicts alive in the current top-level call, by reference
    resources,  \* the context-manager objects (files) mw_from_cm units have built
    exc,        \* the exception in flight, NoExc when none
    result,     \* what the current top-level call gave its caller
    call,       \* the arguments of the current (or last) top-level call
    log         \* history: the phases that have run, in order

vars == <<verbose, out, stack, heap, resources, exc, result, call, log>>

\* The longest middleware list a run is given.
MaxChain == 2

-----------------------------------------------------------------------------
(* Python values.  Each kind is a record with its own field, so that two   *)
(* values of different kinds are comparable and unequal.                   *)

None == [none |-> TRUE]
IntV(n) == [int |-> n]
BoolV(b) == [bool |-> b]
DictV(f) == [dict |-> f]
ResV(i) == [res |-> i]
Ref(i) == [ref |-> i]

IsDict(v) == "dict" \in DOMAIN v
IsRef(v) == "ref" \in DOMAIN v

EmptyDict == [k \in {} |-> None]

\* d[k] = v on a dict
DictSet(d, k, v) == [x \in (DOMAIN d) \cup {k} |-> IF x = k THEN v ELSE d[x]]

NoExc == "none"

-----------------------------------------------------------------------------
(* Key-path helpers of core.py.                                            *)

RECURSIVE get_in(_, _, _)
get_in(d, ks, default) ==
    IF Len(ks) = 1
    THEN IF IsDict(d)
         THEN IF ks[1] \in DOMAIN d.dict THEN d.dict[ks[1]] ELSE default
         ELSE default
    ELSE IF ~IsDict(d) \/ ks[1] \notin DOMAIN d.dict
         THEN default
         ELSE get_in(d.dict[ks[1]], Tail(ks), default)

\* The outcome of assoc_in: ok is FALSE when Python raises TypeError (a value
\* on the way is not a dict); d is the structure as the call left it.
RECURSIVE assoc_in(_, _, _)
RECURSIVE assoc_in_mut(_, _, _)
\* The variant _mut puts a new empty dict at every key on the way.
assoc_in_mut(d, ks, v) ==
    IF ~IsDict(d)
    THEN [ok |-> FALSE, d |-> d]
    ELSE IF Len(ks) = 1
         THEN [ok |-> TRUE, d |-> DictV(DictSet(d.dict, ks[1], v))]
         ELSE LET k == ks[1]
                  d1 == DictSet(d.dict, k, DictV(EmptyDict))
                  r == assoc_in_mut(d1[k], Tail(ks), v)
              IN  [ok |-> r.ok, d |-> DictV(DictSet(d1, k, r.d))]
assoc_in(d, ks, v) ==
    IF ~IsDict(d)
    THEN [ok |-> FALSE, d |-> d]
    ELSE IF Len(ks) = 1
         THEN [ok |-> TRUE, d |-> DictV(DictSet(d.dict, ks[1], v))]
         ELSE LET k == ks[1]
                  d1 == IF k \in DOMAIN d.dict
                        THEN d.dict
                        ELSE DictSet(d.dict, k, DictV(EmptyDict))
                  r == assoc_in(d1[k], Tail(ks), v)
              IN  [ok |-> r.ok, d |-> DictV(DictSet(d1, k, r.d))]

identity(x) == x

-----------------------------------------------------------------------------
(* Callables.  A terminal handler is Term(h); what a middleware            *)
(* constructor u returns for a handler c is the closure Wrap(u, c).        *)

Term(h) == [h |-> h]
Wrap(u, c) == [unit |-> u, inner |-> c]
IsTerm(c) == "h" \in DOMAIN c

\* The functions the tests compose: add_two, add_three and the builtin sum.
Funcs == {"add_two", "add_three", "sum"}

ListV(s) == [list |-> s]
IsInt(x) == "int" \in DOMAIN x
IsList(x) == "list" \in DOMAIN x

\* An exception that left a call, as the outcome of the call.
Failure(e) == [err |-> e]
Failed(x) == "err" \in DOMAIN x

RECURSIVE SumSeq(_)
SumSeq(s) == IF s = <<>> THEN 0 ELSE Head(s) + SumSeq(Tail(s))

\* add_two(x) is x + 2 and add_three(x) is x + 3: a TypeError when x is not a
\* number; sum(x) adds the elements of x: a TypeError when x is not iterable.
Arith(f, x) ==
    CASE f = "add_two" -> IF IsInt(x) THEN IntV(x.int + 2) ELSE Failure("TypeError")
      [] f = "add_three" -> IF IsInt(x) THEN IntV(x.int + 3) ELSE Failure("TypeError")
      [] f = "sum" -> IF IsList(x) THEN IntV(SumSeq(x.list)) ELSE Failure("TypeError")

\* Applying a function that compose was given to one argument: the functions
\* the engine composes are middleware constructors.  An exception of an
\* earlier call has left the composition: no later function is called.
Apply(f, x) ==
    IF Failed(x) THEN x
    ELSE IF f \in Funcs THEN Arith(f, x)
    ELSE Wrap(f, x)

RECURSIVE FoldApply(_, _)
FoldApply(fs, x) == IF fs = <<>> THEN x ELSE FoldApply(Tail(fs), Apply(Head(fs), x))

\* compose(*funcs)(x); the variant _mut applies the functions as the docstring
\* reads, the last one first.
compose_mut(funcs, x) ==
    IF funcs = <<>>
    THEN identity(x)
    ELSE LET rev == [i \in 1..Len(funcs) |-> funcs[Len(funcs) + 1 - i]]
         IN  FoldApply(Tail(rev), Apply(Head(rev), x))
compose(funcs, x) ==
    IF funcs = <<>>
    THEN identity(x)
    ELSE FoldApply(Tail(funcs), Apply(Head(funcs), x))

\* reversed(middleware_); the variant _mut composes the list as given.
reversed_mut(s) == s
reversed(s) == [i \in 1..Len(s) |-> s[Len(s) + 1 - i]]

\* The chain wrap_and_call builds: compose(*reversed(middleware_))(handler)
Chain(mws, h) == compose(reversed(mws), Term(h))

-----------------------------------------------------------------------------
(* The middleware, handlers and contexts the calls are made with.          *)

StrV(s) == [str |-> s]

\* Units built by middleware(name, *args) from a generator function.
GenUnits == {"wrap_add", "wrap_sub", "wrap_replace", "gen_none", "gen_once", "gen_thrice"}
\* Units built by named(name), plain wrappers, and units built by mw_from_cm.
NamedUnits == {"wrap_named"}
PlainUnits == {"wrap_unnamed"}
CmUnits == {"cm_ks", "cm_args"}

Units == GenUnits \cup NamedUnits \cup PlainUnits \cup CmUnits

UnitKind(u) ==
    IF u \in GenUnits THEN "mw"
    ELSE IF u \in NamedUnits THEN "named"
    ELSE IF u \in CmUnits THEN "cm"
    ELSE "plain"

\* The name a unit was given for the trace.
Name(u) ==
    CASE u = "cm_ks" -> "test_cm_mw"
      [] u = "cm_args" -> "test_mw"
      [] OTHER -> u

TracedUnits == GenUnits \cup NamedUnits \cup CmUnits
Names == {Name(u) : u \in TracedUnits}

\* The extra arguments middleware(name, *args) passes to the generator function.
GenArgs(u) == IF u = "wrap_sub" THEN <<1>> ELSE <<>>

\* mw_from_cm's ks (<<>> for None), ctx_args and **kwargs.
CmKs(u) == IF u = "cm_ks" THEN <<"file", "desc">> ELSE <<>>
CmCtxArgs(u) == IF u = "cm_args" THEN << <<"mode", <<"file">> >> >> ELSE <<>>
CmKwargs(u) == [k \in {"file"} |-> StrV("tmp.txt")]

Handlers == {"identity", "add_one", "h_raise", "rerun_loud", "rerun_quiet"}
RerunHandlers == {"rerun_loud", "rerun_quiet"}

Ctx0s == { [k \in {"value", "amount"} |-> IF k = "value" THEN IntV(1) ELSE IntV(2)],
           [k \in {"file"} |-> IntV(0)] }

ChainLists == UNION { [1..n -> Units] : n \in 0..MaxChain }

-----------------------------------------------------------------------------
(* Generators.  A resumption runs the body to its next yield: the outcome  *)
(* is a yielded value, an exception of the body, or StopIteration when     *)
(* the body returns.                                                       *)

Yield(v, hp) == [kind |-> "yield", v |-> v, heap |-> hp, exc |-> NoExc]
Raises(e, hp) == [kind |-> "raise", v |-> None, heap |-> hp, exc |-> e]

\* next(g) on a fresh generator g = g_fn(ctx, *args)
GenNext(u, hp, ctx, args) ==
    CASE u = "wrap_add" ->
            IF ~IsRef(ctx) THEN Raises("TypeError", hp)
            ELSE LET d == hp[ctx.ref] IN
                 IF "amount" \in DOMAIN d /\ "value" \in DOMAIN d
                 THEN Yield(ctx, [hp EXCEPT ![ctx.ref] =
                          DictSet(d, "value", IntV(d["value"].int + d["amount"].int))])
                 ELSE Raises("KeyError", hp)
      [] u = "wrap_sub" ->
            IF ~IsRef(ctx) THEN Raises("TypeError", hp)
            ELSE LET d == hp[ctx.ref] IN
                 IF "value" \in DOMAIN d
                 THEN Yield(ctx, [hp EXCEPT ![ctx.ref] =
                          DictSet(d, "value", IntV(d["value"].int - args[1]))])
                 ELSE Raises("KeyError", hp)
      [] u = "gen_none" -> Raises("StopIteration", hp)
      [] u = "gen_once" ->
            IF ~IsRef(ctx) THEN Raises("TypeError", hp)
            ELSE Yield(Ref(Len(hp) + 1), Append(hp, hp[ctx.ref]))
      [] OTHER -> Yield(ctx, hp)

\* g.send(v) on a generator suspended at its first yield
GenSend(u, hp, v) ==
    CASE u = "wrap_add" ->
            IF ~IsRef(v) THEN Raises("TypeError", hp)
            ELSE Yield(v, [hp EXCEPT ![v.ref] = DictSet(hp[v.ref], "post", BoolV(TRUE))])
      [] u = "wrap_replace" ->
            Yield(Ref(Len(hp) + 1),
                  Append(hp, [k \in {"replacement"} |-> BoolV(TRUE)]))
      [] u = "gen_once" -> Raises("StopIteration", hp)
      [] OTHER -> Yield(v, hp)

-----------------------------------------------------------------------------
(* The trace sink.                                                         *)

InLine(name) == name \o "--->"
OutLine(name) == "<---" \o name

\* The variant _mut prints without reading the flag.
_print_inwards_mut(o, vb, name) == Append(o, InLine(name))
_print_inwards(o, vb, name) == IF vb THEN Append(o, InLine(name)) ELSE o
_print_outwards(o, vb, name) == IF vb THEN Append(o, OutLine(name)) ELSE o

-----------------------------------------------------------------------------
(* Frames.                                                                 *)

Frame(fn, pc, u, handler, ctx) ==
    [fn |-> fn, pc |-> pc, u |-> u, handler |-> handler, ctx |-> ctx,
     g |-> 0, changed_ctx |-> None, new_ctx |-> None, res |-> 0]

FirstPc(kind) ==
    CASE kind = "plain" -> "call"
      [] OTHER -> "enter"

\* The frame of the call c(ctx).
Invoke(c, ctx) ==
    IF IsTerm(c)
    THEN Frame("term", "run", c.h, c, ctx)
    ELSE Frame(UnitKind(c.unit), FirstPc(UnitKind(c.unit)), c.unit, c.inner, ctx)

\* wrap_and_call's frame and the frame of the chain it calls.
WacEnter(st, ctx, h, mws) ==
    st \o << Frame("wrap_and_call", "return", "wrap_and_call", Chain(mws, h), ctx),
             Invoke(Chain(mws, h), ctx) >>

Top == stack[Len(stack)]
Popped == SubSeq(stack, 1, Len(stack) - 1)
SetTop(f) == [stack EXCEPT ![Len(stack)] = f]

Idle == stack = <<>> /\ exc = NoExc
Running == stack # <<>> /\ exc = NoExc

RunDepth(st) == Cardinality({i \in 1..Len(st) : st[i].fn = "wrap_and_call"})
\* A history entry: a unit's before-phase has produced v from the context arg,
\* a terminal handler was called with arg ("handler") or has returned v
\* ("return"), a unit's after-phase was given arg and has produced v.
Ev(e, who, arg, v) ==
    [ev |-> e, who |-> who, run |-> RunDepth(stack), arg |-> arg, v |-> v]

NoResult == [st |-> "none", v |-> None, exc |-> NoExc]
Ok(v) == [st |-> "ok", v |-> v, exc |-> NoExc]
Raised(e) == [st |-> "raise", v |-> None, exc |-> e]

\* The top frame returns v to its caller.
Return(v) ==
    /\ stack' = IF Popped = <<>> THEN <<>>
                ELSE [Popped EXCEPT ![Len(Popped)].new_ctx = v]
    /\ result' = IF Popped = <<>> THEN Ok(v) ELSE result

-----------------------------------------------------------------------------
(* Top-level calls.  Each starts from a fresh context and a drained stdout *)
(* (a test of its own); _VERBOSE_MODE is module state and survives.        *)

\* Between two top-level calls only the kind of the last one is remembered;
\* a direct call of a unit keeps it, a run does not.
NoPrev == [kind |-> "none", verbose |-> FALSE]

\* What the first invocation of a wrapped handler gave, kept while the same
\* wrapped handler is invoked again.
NoFirst == [result |-> [st |-> "none"], heap |-> <<>>, shape |-> <<>>]

NoCall(prev) ==
    [kind |-> "none", mws |-> <<>>, h |-> "identity", ctx |-> EmptyDict,
     verbose |-> FALSE, prev |-> prev, times |-> 1, first |-> NoFirst]

Last == [kind |-> call.kind, verbose |-> call.verbose]

Rested == Idle /\ call.kind = "none"

Init ==
    /\ verbose = FALSE
    /\ out = <<>>
    /\ stack = <<>>
    /\ heap = <<>>
    /\ resources = <<>>
    /\ exc = NoExc
    /\ result = NoResult
    /\ call = NoCall(NoPrev)
    /\ log = <<>>

Fresh(c0) ==
    /\ heap' = <<c0>>
    /\ out' = <<>>
    /\ log' = <<>>
    /\ resources' = <<>>
    /\ exc' = NoExc
    /\ result' = NoResult

\* wrap_and_call(ctx, handler, *middleware, verbose=vb), called from the top level
StartRun ==
    /\ Rested
    /\ \E mws \in ChainLists, h \in Handlers, c0 \in Ctx0s, vb \in BOOLEAN :
          /\ verbose' = vb
          /\ stack' = WacEnter(<<>>, Ref(1), h, mws)
          /\ call' = [kind |-> "run", mws |-> mws, h |-> h, ctx |-> c0,
                      verbose |-> vb, prev |-> NoPrev,
                      times |-> 1, first |-> NoFirst]
          /\ Fresh(c0)

\* u(handler)(ctx), called from the top level, outside any run
StartUnit ==
    /\ Rested
    /\ \E u \in Units, h \in Handlers, c0 \in Ctx0s :
          /\ stack' = <<Invoke(Apply(u, Term(h)), Ref(1))>>
          /\ call' = [kind |-> "unit", mws |-> <<u>>, h |-> h, ctx |-> c0,
                      verbose |-> verbose, prev |-> call.prev,
                      times |-> 1, first |-> NoFirst]
          /\ Fresh(c0)
    /\ UNCHANGED verbose

\* w = u(handler); w(ctx) has returned or raised; w(ctx2) is called, ctx2 a new
\* dict equal to what ctx was.
Again ==
    /\ Idle /\ call.kind = "unit" /\ call.times = 1 /\ result.st # "none"
    /\ stack' = <<Invoke(Apply(call.mws[1], Term(call.h)), Ref(1))>>
    /\ call' = [call EXCEPT !.times = 2, !.verbose = verbose,
                            !.first = [result |-> result, heap |-> heap,
                                       shape |-> [i \in 1..Len(log) |->
                                                    <<log[i].ev, log[i].who, log[i].run>>]]]
    /\ Fresh(call.ctx)
    /\ UNCHANGED verbose

\* The tests' fixture `verbose` assigns core._VERBOSE_MODE directly.
SetVerbose ==
    /\ Rested
    /\ \E b \in BOOLEAN :
          /\ verbose' = b
          /\ call' = NoCall([kind |-> "fixture", verbose |-> b])
    /\ UNCHANGED <<out, stack, heap, resources, exc, result, log>>

\* A top-level call is over: its caller (a test) ends, what was printed is read
\* off and the contexts are dropped.
Teardown ==
    /\ Idle /\ call.kind \in {"run", "unit"}
    /\ call' = NoCall(Last)
    /\ heap' = <<>>
    /\ out' = <<>>
    /\ log' = <<>>
    /\ resources' = <<>>
    /\ result' = NoResult
    /\ UNCHANGED <<verbose, stack, exc>>

-----------------------------------------------------------------------------
(* middleware(name, *args)(g_fn)(handler): new_handler                     *)

\* The argument new_handler calls the handler with (the variant _mut: the
\* context it was itself given).
HandlerArg_mut(f) == f.ctx
HandlerArg(f) == f.changed_ctx

\* The value new_handler resumes the generator with (the variant _mut: the
\* value it gave the handler).
SendArg_mut(f) == f.changed_ctx
SendArg(f) == f.new_ctx

\* g = g_fn(ctx, *args, **kwargs) in the n-th invocation of a wrapped handler:
\* a new generator, at its start (0).  The variant _mut keeps the generator of
\* the first invocation, which is past its yields (2).
NewGen_mut(n) == IF n > 1 THEN 2 ELSE 0
NewGen(n) == 0

\* _print_inwards(name); g = g_fn(ctx, *args); changed_ctx = next(g)
\* (next on a generator that is past its yields raises StopIteration)
MwEnter ==
    /\ Running /\ Top.fn = "mw" /\ Top.pc = "enter"
    /\ LET f == Top
           o == IF NewGen(call.times) = 0
                THEN GenNext(f.u, heap, f.ctx, GenArgs(f.u))
                ELSE Raises("StopIteration", heap)
       IN  /\ out' = _print_inwards(out, verbose, Name(f.u))
           /\ heap' = o.heap
           /\ IF o.kind = "yield"
              THEN /\ stack' = SetTop([f EXCEPT !.pc = "call", !.g = 1, !.changed_ctx = o.v])
                   /\ log' = Append(log, Ev("before", f.u, f.ctx, o.v))
                   /\ exc' = exc
              ELSE /\ stack' = SetTop([f EXCEPT !.g = 3])
                   /\ exc' = o.exc
                   /\ log' = log
    /\ UNCHANGED <<verbose, resources, result, call>>

\* new_ctx = handler(changed_ctx): the call
MwCall ==
    /\ Running /\ Top.fn = "mw" /\ Top.pc = "call"
    /\ stack' = Append(SetTop([Top EXCEPT !.pc = "resume"]),
                       Invoke(Top.handler, HandlerArg(Top)))
    /\ UNCHANGED <<verbose, out, heap, resources, exc, result, call, log>>

\* last_ctx = g.send(new_ctx); _print_outwards(name); return last_ctx
MwResume ==
    /\ Running /\ Top.fn = "mw" /\ Top.pc = "resume"
    /\ LET f == Top
           o == GenSend(f.u, heap, SendArg(f))
       IN  /\ heap' = o.heap
           /\ IF o.kind = "yield"
              THEN /\ out' = _print_outwards(out, verbose, Name(f.u))
                   /\ log' = Append(log, Ev("after", f.u, SendArg(f), o.v))
                   /\ Return(o.v)
                   /\ exc' = exc
              ELSE /\ stack' = SetTop([f EXCEPT !.g = 3])
                   /\ exc' = o.exc
                   /\ log' = Append(log, Ev("resumed", f.u, SendArg(f), None))
                   /\ UNCHANGED <<out, result>>
    /\ UNCHANGED <<verbose, resources, call>>

-----------------------------------------------------------------------------
(* named(name)(mware)(handler): verbose_handler around new_handler =       *)
(* mware(handler); mware is a plain wrapper (new_handle).                  *)

\* _print_inwards(name); new_ctx = new_handler(ctx): the call
NamedEnter ==
    /\ Running /\ Top.fn = "named" /\ Top.pc = "enter"
    /\ out' = _print_inwards(out, verbose, Name(Top.u))
    /\ stack' = Append(SetTop([Top EXCEPT !.pc = "leave"]),
                       Frame("plain", "call", Top.u, Top.handler, Top.ctx))
    /\ UNCHANGED <<verbose, heap, resources, exc, result, call, log>>

\* _print_outwards(name); return new_ctx
NamedLeave ==
    /\ Running /\ Top.fn = "named" /\ Top.pc = "leave"
    /\ out' = _print_outwards(out, verbose, Name(Top.u))
    /\ Return(Top.new_ctx)
    /\ UNCHANGED <<verbose, heap, resources, exc, call, log>>

\* new_handle: new_ctx = handle(ctx): the call
PlainCall ==
    /\ Running /\ Top.fn = "plain" /\ Top.pc = "call"
    /\ stack' = Append(SetTop([Top EXCEPT !.pc = "return"]),
                       Invoke(Top.handler, Top.ctx))
    /\ log' = Append(log, Ev("before", Top.u, Top.ctx, Top.ctx))
    /\ UNCHANGED <<verbose, out, heap, resources, exc, result, call>>

\* new_handle: return new_ctx
PlainReturn ==
    /\ Running /\ Top.fn = "plain" /\ Top.pc = "return"
    /\ log' = Append(log, Ev("after", Top.u, Top.new_ctx, Top.new_ctx))
    /\ Return(Top.new_ctx)
    /\ UNCHANGED <<verbose, out, heap, resources, exc, call>>

-----------------------------------------------------------------------------
(* mw_from_cm(name, cm_constructor, ks, ctx_args, **kwargs)(handler):      *)
(* new_handler.  cm_constructor is `open`: entering gives the file, exit   *)
(* closes it and lets an exception pass.                                   *)

\* The object a value in flight stands for.
Deref(hp, v) == IF IsRef(v) THEN DictV(hp[v.ref]) ELSE v

\* for k, ks_ in ctx_args: ctx_kwargs[k] = get_in(ctx, ks_)
RECURSIVE CtxKwargs(_, _, _)
CtxKwargs(ctx_args, d, acc) ==
    IF ctx_args = <<>> THEN acc
    ELSE CtxKwargs(Tail(ctx_args), d,
                   DictSet(acc, Head(ctx_args)[1], get_in(d, Head(ctx_args)[2], None)))

\* **ctx_kwargs, **kwargs
Merge(a, b) == [k \in (DOMAIN a) \cup (DOMAIN b) |-> IF k \in DOMAIN b THEN b[k] ELSE a[k]]

\* cm_constructor(...).__enter__()
Opened(kw) == [state |-> "open", enters |-> 1, exits |-> 0, kwargs |-> kw]

\* __exit__ of the resource rid
ExitResource(rs, rid) == [rs EXCEPT ![rid].state = "closed", ![rid].exits = @ + 1]

\* _print_inwards(name); the ctx_kwargs loop; with cm_constructor(...) as v:
\* if ks: assoc_in(ctx, ks, v)
CmEnter ==
    /\ Running /\ Top.fn = "cm" /\ Top.pc = "enter"
    /\ LET f == Top
           d == Deref(heap, f.ctx)
           kw == Merge(CtxKwargs(CmCtxArgs(f.u), d, EmptyDict), CmKwargs(f.u))
           rid == Len(resources) + 1
           rs == Append(resources, Opened(kw))
           r == IF CmKs(f.u) = <<>> THEN [ok |-> TRUE, d |-> d]
                ELSE assoc_in(d, CmKs(f.u), ResV(rid))
       IN  /\ out' = _print_inwards(out, verbose, Name(f.u))
           /\ heap' = IF IsRef(f.ctx) THEN [heap EXCEPT ![f.ctx.ref] = r.d.dict] ELSE heap
           /\ IF r.ok
              THEN /\ resources' = rs
                   /\ stack' = SetTop([f EXCEPT !.pc = "call", !.res = rid])
                   /\ log' = Append(log, Ev("before", f.u, f.ctx, f.ctx))
                   /\ exc' = exc
              ELSE /\ resources' = ExitResource(rs, rid)
                   /\ exc' = "TypeError"
                   /\ UNCHANGED <<stack, log>>
    /\ UNCHANGED <<verbose, result, call>>

\* inside the with block: new_ctx = handler(ctx): the call
CmCall ==
    /\ Running /\ Top.fn = "cm" /\ Top.pc = "call"
    /\ stack' = Append(SetTop([Top EXCEPT !.pc = "exit"]), Invoke(Top.handler, Top.ctx))
    /\ UNCHANGED <<verbose, out, heap, resources, exc, result, call, log>>

\* the with block ends: __exit__; _print_outwards(name); return new_ctx
CmExit ==
    /\ Running /\ Top.fn = "cm" /\ Top.pc = "exit"
    /\ resources' = ExitResource(resources, Top.res)
    /\ out' = _print_outwards(out, verbose, Name(Top.u))
    /\ log' = Append(log, Ev("after", Top.u, Top.new_ctx, Top.new_ctx))
    /\ Return(Top.new_ctx)
    /\ UNCHANGED <<verbose, heap, exc, call>>

\* an exception leaves the with block: __exit__ runs and lets it pass (the
\* variant _mut leaves the block without __exit__)
CmExitOnRaise_mut ==
    /\ exc # NoExc /\ stack # <<>>
    /\ Top.fn = "cm" /\ Top.res # 0
    /\ stack' = SetTop([Top EXCEPT !.res = 0, !.pc = "left"])
    /\ UNCHANGED <<verbose, out, heap, resources, exc, result, call, log>>

CmExitOnRaise ==
    /\ exc # NoExc /\ stack # <<>>
    /\ Top.fn = "cm" /\ Top.res # 0
    /\ resources' = ExitResource(resources, Top.res)
    /\ stack' = SetTop([Top EXCEPT !.res = 0, !.pc = "left"])
    /\ log' = Append(log, Ev("exit_on_raise", Top.u, None, None))
    /\ UNCHANGED <<verbose, out, heap, exc, result, call>>

-----------------------------------------------------------------------------
(* Terminal handlers.                                                      *)

IsHandler(h) == Running /\ Top.fn = "term" /\ Top.u = h /\ Top.pc = "run"

\* core.identity
HandlerIdentity ==
    /\ IsHandler("identity")
    /\ log' = log \o <<Ev("handler", "identity", Top.ctx, None),
                       Ev("return", "identity", Top.ctx, identity(Top.ctx))>>
    /\ Return(identity(Top.ctx))
    /\ UNCHANGED <<verbose, out, heap, resources, exc, call>>

\* add_one: ctx['value'] += 1; return ctx
HandlerAddOne ==
    /\ IsHandler("add_one")
    /\ LET d == Deref(heap, Top.ctx).dict IN
       IF ~IsRef(Top.ctx)
       THEN /\ exc' = "TypeError"
            /\ log' = Append(log, Ev("handler", "add_one", Top.ctx, None))
            /\ UNCHANGED <<heap, stack, result>>
       ELSE IF "value" \in DOMAIN d
       THEN /\ heap' = [heap EXCEPT ![Top.ctx.ref] =
                           DictSet(d, "value", IntV(d["value"].int + 1))]
            /\ log' = log \o <<Ev("handler", "add_one", Top.ctx, None),
                               Ev("return", "add_one", Top.ctx, Top.ctx)>>
            /\ Return(Top.ctx)
            /\ exc' = exc
       ELSE /\ exc' = "KeyError"
            /\ log' = Append(log, Ev("handler", "add_one", Top.ctx, None))
            /\ UNCHANGED <<heap, stack, result>>
    /\ UNCHANGED <<verbose, out, resources, call>>

\* a handler that fails
HandlerRaise ==
    /\ IsHandler("h_raise")
    /\ exc' = "HandlerError"
    /\ log' = Append(log, Ev("handler", "h_raise", Top.ctx, None))
    /\ UNCHANGED <<verbose, out, stack, heap, resources, result, call>>

\* a handler that itself runs a chain:
\* return wrap_and_call(ctx, identity, wrap_named, verbose=...)
RerunCall ==
    /\ \E h \in RerunHandlers :
          /\ IsHandler(h)
          /\ verbose' = (h = "rerun_loud")
          /\ log' = Append(log, Ev("handler", h, Top.ctx, None))
          /\ stack' = WacEnter(SetTop([Top EXCEPT !.pc = "return"]), Top.ctx,
                               "identity", <<"wrap_named">>)
    /\ UNCHANGED <<out, heap, resources, exc, result, call>>

RerunReturn ==
    /\ Running /\ Top.fn = "term" /\ Top.pc = "return"
    /\ log' = Append(log, Ev("return", Top.u, Top.ctx, Top.new_ctx))
    /\ Return(Top.new_ctx)
    /\ UNCHANGED <<verbose, out, heap, resources, exc, call>>

-----------------------------------------------------------------------------
(* wrap_and_call's return, and exceptions.                                 *)

\* return compose(*reversed(middleware_))(handler)(ctx); the variant _mut
\* switches the flag off on the way out.
WacReturn_mut ==
    /\ Running /\ Top.fn = "wrap_and_call" /\ Top.pc = "return"
    /\ Return(Top.new_ctx)
    /\ verbose' = FALSE
    /\ UNCHANGED <<out, heap, resources, exc, call, log>>
WacReturn ==
    /\ Running /\ Top.fn = "wrap_and_call" /\ Top.pc = "return"
    /\ Return(Top.new_ctx)
    /\ UNCHANGED <<verbose, out, heap, resources, exc, call, log>>

\* A frame with no handler for the exception is left: no function of core.py
\* has an except clause, and only mw_from_cm has a with block.  A frame that
\* caught the exception would go on with None.
Unwind_mut ==
    /\ exc # NoExc /\ stack # <<>>
    /\ ~(Top.fn = "cm" /\ Top.res # 0)
    /\ exc' = NoExc
    /\ Return(None)
    /\ UNCHANGED <<verbose, out, heap, resources, call, log>>

Unwind ==
    /\ exc # NoExc /\ stack # <<>>
    /\ ~(Top.fn = "cm" /\ Top.res # 0)
    /\ stack' = Popped
    /\ IF Popped = <<>>
       THEN result' = Raised(exc) /\ exc' = NoExc
       ELSE UNCHANGED <<result, exc>>
    /\ UNCHANGED <<verbose, out, heap, resources, call, log>>

Next ==
    \/ StartRun \/ StartUnit \/ Again \/ SetVerbose \/ Teardown
    \/ MwEnter \/ MwCall \/ MwResume
    \/ NamedEnter \/ NamedLeave \/ PlainCall \/ PlainReturn
    \/ CmEnter \/ CmCall \/ CmExit \/ CmExitOnRaise
    \/ HandlerIdentity \/ HandlerAddOne \/ HandlerRaise
    \/ RerunCall \/ RerunReturn
    \/ WacReturn \/ Unwind

Spec == Init /\ [][Next]_vars

TypeOK ==
    /\ verbose \in BOOLEAN
    /\ exc \in {NoExc, "KeyError", "TypeError", "StopIteration", "HandlerError"}
    /\ result.st \in {"none", "ok", "raise"}
    /\ \A i \in 1..Len(stack) :
          stack[i].fn \in {"wrap_and_call", "mw", "named", "plain", "cm", "term"}

-----------------------------------------------------------------------------
(* compose called on its own, as the tests call it.                        *)

MaxFuncs == 3

RECURSIVE SeqsUpTo(_, _)
SeqsUpTo(S, n) ==
    IF n = 0 THEN {<<>>}
    ELSE LET R == SeqsUpTo(S, n - 1)
         IN  R \cup {Append(s, e) : s \in {r \in R : Len(r) = n - 1}, e \in S}

FuncLists == SeqsUpTo(Funcs, MaxFuncs)
ComposeArgs == {IntV(1), IntV(2), ListV(<<1, 2, 3>>), ListV(<<>>)}

Outcome(r) == IF Failed(r) THEN Raised(r.err) ELSE Ok(r)

\* compose(*funcs)(x), called from the top level
ComposeCall ==
    /\ Rested
    /\ \E funcs \in FuncLists, x \in ComposeArgs :
          /\ call' = [kind |-> "compose", funcs |-> funcs, x |-> x]
          /\ result' = Outcome(compose(funcs, x))
    /\ UNCHANGED <<verbose, out, stack, heap, resources, exc, log>>

NextCompose == ComposeCall

SpecCompose == Init /\ [][NextCompose]_vars

-----------------------------------------------------------------------------
(* The key-path functions called on their own: get_in and assoc_in of      *)
(* core.py, and get_in, dissoc_in and update_in of dict.py (its assoc_in   *)
(* is the code of core.py's).                                              *)

\* The deepest nesting of the maps the functions are called on; the paths are
\* one key longer.
MaxDepth == 2

Keys == {"a", "b"}
Leaf == IntV(0)

\* dict.get_in: no check that the value walked into is a dict.  `k not in d_`
\* on a number is a TypeError, d_.get on a number an AttributeError.
RECURSIVE dict_get_in(_, _, _)
dict_get_in(d, ks, default) ==
    IF Len(ks) = 1
    THEN IF IsDict(d)
         THEN IF ks[1] \in DOMAIN d.dict THEN d.dict[ks[1]] ELSE default
         ELSE Failure("AttributeError")
    ELSE IF ~IsDict(d)
         THEN Failure("TypeError")
         ELSE IF ks[1] \notin DOMAIN d.dict
              THEN default
              ELSE dict_get_in(d.dict[ks[1]], Tail(ks), default)

\* d_.pop(last, None) on a dict
DictPop(d, k) == [x \in (DOMAIN d) \ {k} |-> d[x]]

\* dict.dissoc_in: exc is the exception that left the call (NoExc when it
\* returned), d the structure as the call left it.
RECURSIVE dissoc_in(_, _)
dissoc_in(d, ks) ==
    IF Len(ks) = 1
    THEN IF IsDict(d)
         THEN [exc |-> NoExc, d |-> DictV(DictPop(d.dict, ks[1]))]
         ELSE [exc |-> "AttributeError", d |-> d]
    ELSE IF ~IsDict(d)
         THEN [exc |-> "TypeError", d |-> d]
         ELSE IF ks[1] \notin DOMAIN d.dict
              THEN [exc |-> NoExc, d |-> d]
              ELSE LET r == dissoc_in(d.dict[ks[1]], Tail(ks))
                   IN  [exc |-> r.exc, d |-> DictV(DictSet(d.dict, ks[1], r.d))]

\* The function update_in is given, applied to the value it read.
UpdV(old) == [upd |-> old]

\* dict.update_in: new_v = f(get_in(d, ks), *args); assoc_in(d, ks, new_v)
update_in(d, ks) ==
    LET old == dict_get_in(d, ks, None) IN
    IF Failed(old)
    THEN [exc |-> old.err, d |-> d]
    ELSE LET r == assoc_in(d, ks, UpdV(old))
         IN  [exc |-> IF r.ok THEN NoExc ELSE "TypeError", d |-> r.d]

\* Nested maps of depth n at most, and the values at their keys.
RECURSIVE MapsUpTo(_)
MapsUpTo(n) ==
    IF n = 0 THEN {Leaf}
    ELSE LET V == MapsUpTo(n - 1)
         IN  {Leaf} \cup UNION {{DictV(f) : f \in [S -> V]} : S \in SUBSET Keys}

Roots == {m \in MapsUpTo(MaxDepth) : IsDict(m)}
Paths == SeqsUpTo(Keys, MaxDepth + 1) \ {<<>>}
Defaults == {None, IntV(7)}
NewValues == {IntV(1), DictV(EmptyDict)}

\* The first argument: the map (an object of the heap), or a value that is
\* not a map.
RootArgs == {Ref(1), Leaf}

InitKeyPath ==
    /\ heap \in {<<m.dict>> : m \in Roots}
    /\ verbose = FALSE
    /\ out = <<>>
    /\ stack = <<>>
    /\ resources = <<>>
    /\ exc = NoExc
    /\ result = NoResult
    /\ call = NoCall(NoPrev)
    /\ log = <<>>

\* The arguments of a key-path call; before is the map as it was at the call.
KpCall(kind, m, ks, v) ==
    [kind |-> kind, m |-> m, ks |-> ks, v |-> v, before |-> Deref(heap, m)]

\* What the call left of its first argument.
Left(m, d) == IF IsRef(m) THEN [heap EXCEPT ![m.ref] = d.dict] ELSE heap

\* core.get_in(m, ks, default)
KpGetIn ==
    /\ Rested
    /\ \E m \in RootArgs, ks \in Paths, default \in Defaults :
          /\ call' = KpCall("core.get_in", m, ks, default)
          /\ result' = Ok(get_in(Deref(heap, m), ks, default))
    /\ UNCHANGED <<verbose, out, stack, heap, resources, exc, log>>

\* dict.get_in(m, ks, default)
KpDictGetIn ==
    /\ Rested
    /\ \E m \in RootArgs, ks \in Paths, default \in Defaults :
          /\ call' = KpCall("dict.get_in", m, ks, default)
          /\ result' = Outcome(dict_get_in(Deref(heap, m), ks, default))
    /\ UNCHANGED <<verbose, out, stack, heap, resources, exc, log>>

\* assoc_in(m, ks, v): returns m
KpAssocIn ==
    /\ Rested
    /\ \E m \in RootArgs, ks \in Paths, v \in NewValues :
          LET r == assoc_in(Deref(heap, m), ks, v) IN
          /\ call' = KpCall("assoc_in", m, ks, v)
          /\ heap' = Left(m, r.d)
          /\ result' = IF r.ok THEN Ok(m) ELSE Raised("TypeError")
    /\ UNCHANGED <<verbose, out, stack, resources, exc, log>>

\* dict.dissoc_in(m, ks): returns m
KpDissocIn ==
    /\ Rested
    /\ \E m \in RootArgs, ks \in Paths :
          LET r == dissoc_in(Deref(heap, m), ks) IN
          /\ call' = KpCall("dissoc_in", m, ks, None)
          /\ heap' = Left(m, r.d)
          /\ result' = IF r.exc = NoExc THEN Ok(m) ELSE Raised(r.exc)
    /\ UNCHANGED <<verbose, out, stack, resources, exc, log>>

\* dict.update_in(m, ks, f): returns m
KpUpdateIn ==
    /\ Rested
    /\ \E m \in RootArgs, ks \in Paths :
          LET r == update_in(Deref(heap, m), ks) IN
          /\ call' = KpCall("update_in", m, ks, None)
          /\ heap' = Left(m, r.d)
          /\ result' = IF r.exc = NoExc THEN Ok(m) ELSE Raised(r.exc)
    /\ UNCHANGED <<verbose, out, stack, resources, exc, log>>

NextKeyPath == KpGetIn \/ KpDictGetIn \/ KpAssocIn \/ KpDissocIn \/ KpUpdateIn

SpecKeyPath == InitKeyPath /\ [][NextKeyPath]_vars

-----------------------------------------------------------------------------
(* What the history of a call says.                                        *)

\* The top-level call is over and its caller has the result.
Done == Idle /\ result.st # "none"

AtLevel(l) == SelectSeq(log, LAMBDA e : e.run = l)
Phases(l) == SelectSeq(log, LAMBDA e : e.run = l /\ e.ev \in {"before", "handler", "return", "after"})
Shape(s) == [i \in 1..Len(s) |-> <<s[i].ev, s[i].who>>]
Count(s, evs) == Cardinality({i \in 1..Len(s) : s[i].ev \in evs})

IsPrefix(s, t) == Len(s) <= Len(t) /\ s = SubSeq(t, 1, Len(s))

\* m1(m2(...mn(H)...))
RECURSIVE Nest(_, _)
Nest(mws, h) == IF mws = <<>> THEN Term(h) ELSE Wrap(Head(mws), Nest(Tail(mws), h))

\* before-phases m1..mn, the handler once, after-phases mn..m1
Expected(mws, h) ==
    [i \in 1..Len(mws) |-> <<"before", mws[i]>>]
    \o << <<"handler", h>>, <<"return", h>> >>
    \o [i \in 1..Len(mws) |-> <<"after", mws[Len(mws) + 1 - i]>>]

-----------------------------------------------------------------------------
\* C1: wrap_and_call(ctx, H, m1..mn) calls m1(m2(...mn(H)...))(ctx): the phases
\* of a run are, in order, the before-phases of m1..mn, H once, the after-phases
\* of mn..m1; a run that fails has run a prefix of them.
C1_NestingOrder ==
    call.kind = "run" =>
        /\ stack # <<>> => stack[1].handler = Nest(call.mws, call.h)
        /\ IsPrefix(Shape(Phases(1)), Expected(call.mws, call.h))
        /\ (Done /\ result.st = "ok") => Shape(Phases(1)) = Expected(call.mws, call.h)

C1_Witness ==
    /\ Done /\ call.kind = "run" /\ result.st = "ok"
    /\ Len(call.mws) = 2 /\ call.mws[1] # call.mws[2]
    /\ Shape(Phases(1)) = Expected(call.mws, call.h)

\* C2: an invocation u(H)(C) of a unit built by middleware() calls H at most
\* once, and exactly once when its before-phase yielded; H is called right
\* after the first yield with the value yielded, and the generator is resumed
\* with the value H returned.
C2_HandlerOnce ==
    (call.kind = "unit" /\ call.mws[1] \in GenUnits) =>
        LET L == AtLevel(0) IN
        /\ Count(L, {"handler"}) <= 1
        /\ Len(L) >= 1 => L[1].ev = "before" /\ L[1].who = call.mws[1] /\ L[1].arg = Ref(1)
        /\ Len(L) >= 2 => L[2].ev = "handler" /\ L[2].who = call.h /\ L[2].arg = L[1].v
        /\ (Done /\ Len(L) >= 1) => Count(L, {"handler"}) = 1
        /\ \A i \in 1..Len(L) :
              L[i].ev \in {"after", "resumed"} =>
                  /\ i = 4 /\ L[3].ev = "return"
                  /\ L[i].arg = L[3].v
        /\ (Done /\ Count(L, {"return"}) = 1) => Count(L, {"after", "resumed"}) = 1
        /\ (Done /\ result.st = "ok") =>
              /\ Shape(L) = Expected(call.mws, call.h)
              /\ result.v = L[4].v

C2_Witness ==
    /\ Done /\ call.kind = "unit" /\ call.mws = <<"wrap_add">> /\ call.h = "add_one"
    /\ result = Ok(Ref(1))
    /\ heap[1]["value"] = IntV(4) /\ heap[1]["post"] = BoolV(TRUE)
    /\ Count(AtLevel(0), {"handler"}) = 1

\* C3: a chain returns what the after-phase of its outermost unit produced, and
\* every after-phase is given what the unit (or handler) it wraps returned; so
\* wrap_add around wrap_replace around identity on {value: 1, amount: 2} gives
\* exactly {replacement: True, post: True}.
C3_Replacement ==
    call.kind = "run" =>
        LET L == Phases(1) IN
        /\ \A i \in 1..Len(L) :
              L[i].ev = "after" =>
                  /\ i > 1 /\ L[i - 1].ev \in {"after", "return"}
                  /\ L[i].arg = L[i - 1].v
        /\ (Done /\ result.st = "ok") => result.v = L[Len(L)].v
        /\ (Done /\ call.mws = <<"wrap_add", "wrap_replace">> /\ call.h = "identity"
                 /\ "amount" \in DOMAIN call.ctx) =>
              /\ result.st = "ok"
              /\ heap[result.v.ref] = [k \in {"replacement", "post"} |-> BoolV(TRUE)]

C3_Witness ==
    /\ Done /\ call.kind = "run" /\ call.mws = <<"wrap_add", "wrap_replace">>
    /\ call.h = "identity" /\ "amount" \in DOMAIN call.ctx
    /\ result = Ok(Ref(2))
    /\ DOMAIN heap[2] = {"replacement", "post"}
    /\ heap[1] = [k \in {"value", "amount"} |-> IF k = "value" THEN IntV(3) ELSE IntV(2)]

-----------------------------------------------------------------------------
\* C4: the trace flag is enabled only while a run that asked for tracing is
\* under way: once wrap_and_call(..., verbose=True) is over, normally or by a
\* failure, the flag is off again, and a unit called directly afterwards prints
\* nothing.
C4_FlagRestored ==
    /\ (Done /\ call.kind = "run" /\ call.verbose) => ~verbose
    /\ (call.kind = "unit" /\ call.prev = [kind |-> "run", verbose |-> TRUE]) => out = <<>>

\* The lines are paired and nested: read in order, every outward line closes the
\* innermost inward line still open and carries its name; st is the open names.
RECURSIVE Nested(_, _)
Nested(lines, st) ==
    IF lines = <<>> THEN st = <<>>
    ELSE IF \E n \in Names : Head(lines) = InLine(n)
         THEN Nested(Tail(lines), Append(st, CHOOSE n \in Names : Head(lines) = InLine(n)))
         ELSE /\ st # <<>>
              /\ Head(lines) = OutLine(st[Len(st)])
              /\ Nested(Tail(lines), SubSeq(st, 1, Len(st) - 1))

\* C5: the lines of every traced run are paired and nested: each inward line has
\* exactly one matching outward line, after the lines of the units it wraps.
C5_PairedNested ==
    (Done /\ call.kind = "run" /\ call.verbose) => Nested(out, <<>>)

\* C6, the states: called directly around identity with the flag on, a named
\* unit that returns has printed 'X--->' then '<---X' and nothing else; with the
\* flag off nothing is printed; around an unnamed wrapper nothing is printed.
C6_Lines ==
    (Done /\ call.kind = "unit" /\ call.h = "identity") =>
        LET u == call.mws[1] IN
        /\ (call.verbose /\ u \in TracedUnits /\ result.st = "ok") =>
              out = <<InLine(Name(u)), OutLine(Name(u))>>
        /\ (call.verbose /\ u \in TracedUnits) =>
              IsPrefix(out, <<InLine(Name(u)), OutLine(Name(u))>>)
        /\ ~call.verbose => out = <<>>
        /\ u \in PlainUnits => out = <<>>

\* C6, the steps: a line is printed only while the flag is on, and only by a
\* unit that was given a name, which prints that name.
C6_Printing ==
    Len(out') > Len(out) =>
        /\ verbose
        /\ stack # <<>> /\ Top.fn \in {"mw", "named", "cm"}
        /\ \/ out' = Append(out, InLine(Name(Top.u)))
           \/ out' = Append(out, OutLine(Name(Top.u)))

\* C6: with the flag on, one call of a named unit X around identity prints
\* exactly 'X--->' then '<---X'; with the flag off no unit prints anything; a
\* wrapper without a name never prints.
C6_Trace == []C6_Lines /\ [][C6_Printing]_vars

C6_Witness ==
    /\ Done /\ call.kind = "unit" /\ call.h = "identity" /\ call.verbose
    /\ call.mws = <<"wrap_add">> /\ result.st = "ok"
    /\ out = <<"wrap_add--->", "<---wrap_add">>

\* Generators that do not have exactly two yields.
Malformed == {"gen_none", "gen_once", "gen_thrice"}

\* C7: a call of a unit built from a generator that never suspends, or that can
\* be suspended more than once, fails instead of returning a context.
C7_MalformedRejected ==
    (Done /\ call.kind = "unit" /\ call.mws[1] \in Malformed) => result.st = "raise"

\* The frames of mw_from_cm units that are inside their with block.
Holding(rid) == {i \in 1..Len(stack) : stack[i].fn = "cm" /\ stack[i].res = rid}

\* C8: a unit built by mw_from_cm has entered its resource, and stored it at the
\* key path, when it calls the handler; the resource stays open while the handler
\* runs and is exited exactly once when the handler is over, also by a failure;
\* nobody outside the unit sees the call over with the resource still open.
C8_EnterExit ==
    /\ \A i \in 1..Len(stack) :
          (stack[i].fn = "cm" /\ (stack[i].pc \in {"call", "exit"} \/ i < Len(stack))) =>
              LET f == stack[i] IN
              /\ f.res \in 1..Len(resources)
              /\ resources[f.res] = [state |-> "open", enters |-> 1, exits |-> 0,
                                     kwargs |-> resources[f.res].kwargs]
              /\ (f.pc = "call" /\ CmKs(f.u) # <<>>) =>
                    get_in(Deref(heap, f.ctx), CmKs(f.u), None) = ResV(f.res)
    /\ \A rid \in 1..Len(resources) :
          /\ resources[rid].enters = 1 /\ resources[rid].exits <= 1
          /\ Holding(rid) = {} =>
                resources[rid].state = "closed" /\ resources[rid].exits = 1

C8_Witness ==
    /\ Done /\ result = Raised("HandlerError")
    /\ call.mws = <<"cm_ks">> /\ call.h = "h_raise"
    /\ Len(resources) = 1 /\ resources[1].state = "closed" /\ resources[1].exits = 1
    /\ get_in(DictV(heap[1]), <<"file", "desc">>, None) = ResV(1)

\* The history of the units built by middleware() and by mw_from_cm.
TwoPhase == SelectSeq(log, LAMBDA e : e.who \in GenUnits \cup CmUnits)

\* C9: the after-phase of every unit whose before-phase has completed is run,
\* also when the inner call fails: when the call is over, every before-phase
\* of a unit built by middleware() or mw_from_cm has its after-phase (for a
\* generator its resumption, for a resource its exit).
C9_AfterAlwaysRuns ==
    Done => Count(TwoPhase, {"before"}) = Count(TwoPhase, {"after", "resumed", "exit_on_raise"})

\* C10, the steps: an exception in flight stays the same exception until the
\* caller of the top-level call has it; while it is in flight no frame is
\* entered and no before-phase, handler or after-phase runs (a with block's
\* exit apart).
C10_Propagation ==
    exc # NoExc =>
        /\ exc' = exc \/ (stack' = <<>> /\ exc' = NoExc /\ result' = Raised(exc))
        /\ Len(stack') <= Len(stack)
        /\ \/ log' = log
           \/ /\ Top.fn = "cm"
              /\ log' = Append(log, Ev("exit_on_raise", Top.u, None, None))
        /\ out' = out /\ heap' = heap /\ verbose' = verbose

\* C10: a failure of the handler or of a phase of a unit reaches the caller of
\* wrap_and_call as that failure: nothing catches, retries or replaces it, and
\* no before-phase starts after it.
C10_Unchanged == [][C10_Propagation]_vars

C10_Witness ==
    /\ Done /\ call.kind = "run" /\ Len(call.mws) = 2
    /\ call.h = "h_raise" /\ result = Raised("HandlerError")
    /\ Shape(Phases(1)) = << <<"before", call.mws[1]>>, <<"before", call.mws[2]>>,
                             <<"handler", "h_raise">> >>

\* C11, the steps: in a top-level run, a named unit of that run (not of a run
\* nested in it) that is entered or that returns prints its line exactly when
\* the run was started with verbose=True.
C11_OwnLines ==
    (/\ call.kind = "run" /\ Running
     /\ RunDepth(stack) = 1 /\ Top.fn \in {"mw", "named", "cm"}
     /\ \/ Top.pc = "enter"
        \/ Len(stack') < Len(stack) /\ exc' = NoExc)
    => (out' # out <=> call.verbose)

\* C11: runs do not interfere through the trace flag: when the handler of a
\* run itself calls wrap_and_call, the lines the outer run's units print are
\* decided by the outer run's verbose argument, before and after the inner run.
C11_NoInterference == [][C11_OwnLines]_vars


\* The wrap_and_call invocations a handler of the current call has started.
Reruns == SelectSeq(log, LAMBDA e : e.ev = "handler" /\ e.who \in RerunHandlers)

\* The verbose argument of the wrap_and_call invocation started last; when the
\* current call has started none, the flag it found.
LastArg ==
    IF Reruns # <<>> THEN Reruns[Len(Reruns)].who = "rerun_loud" ELSE call.verbose

\* C17, the states: during and after a call the flag is the verbose argument of
\* the invocation started last, and a run with verbose=False that starts no
\* other run has printed nothing.
C17_FlagIsLastArg ==
    /\ call.kind \in {"run", "unit"} => verbose = LastArg
    /\ (call.kind = "run" /\ ~call.verbose /\ call.h \notin RerunHandlers) => out = <<>>

\* C17, the steps: entering wrap_and_call assigns the flag, whatever it was, and
\* nothing else of the engine changes it (the tests' fixture assigns it
\* between calls).
C17_OnlyOnEntry ==
    /\ (stack = <<>> /\ RunDepth(stack') = 1) => verbose' = call'.verbose
    /\ verbose' # verbose =>
          \/ RunDepth(stack') = RunDepth(stack) + 1
          \/ stack' = <<>> /\ call'.kind = "none" /\ call'.prev.kind = "fixture"

\* C17: after any sequence of wrap_and_call invocations the trace flag equals
\* the verbose argument of the invocation started last: every call assigns it
\* on entry and none changes it afterwards, so a run with verbose=False that is
\* not nested prints no line whatever ran before it.
C17_FlagFollowsLastCall == []C17_FlagIsLastArg /\ [][C17_OnlyOnEntry]_vars

C17_Witness ==
    /\ Done /\ call.kind = "run" /\ call.verbose /\ call.h = "rerun_quiet"
    /\ call.mws = <<"wrap_add">> /\ result.st = "ok"
    /\ verbose = FALSE
    /\ out = <<"wrap_add--->">>


\* The history of the current invocation, as Again keeps the first one's.
History == [i \in 1..Len(log) |-> <<log[i].ev, log[i].who, log[i].run>>]

\* C18: a unit built by middleware() carries no state between invocations: the
\* same wrapped handler invoked a second time on an equal context goes through
\* the same phases, each once, and gives the same result and the same context
\* as the first time.
C18_NoStateKept ==
    (call.kind = "unit" /\ call.mws[1] \in GenUnits /\ call.times = 2) =>
        /\ IsPrefix(History, call.first.shape)
        /\ Done =>
              /\ History = call.first.shape
              /\ result = call.first.result
              /\ heap = call.first.heap
        /\ (Done /\ result.st = "ok") =>
              Shape(Phases(0)) = Expected(call.mws, call.h)

C18_Witness ==
    /\ Done /\ call.kind = "unit" /\ call.times = 2
    /\ call.mws = <<"wrap_add">> /\ call.h = "add_one"
    /\ call.ctx = [k \in {"value", "amount"} |-> IF k = "value" THEN IntV(1) ELSE IntV(2)]
    /\ result = Ok(Ref(1)) /\ call.first.result = Ok(Ref(1))
    /\ heap[1]["value"] = IntV(4)

\* fn(...f2(f1(x))): the last function applied to what the ones before it gave.
RECURSIVE LeftToRight(_, _)
LeftToRight(fs, x) ==
    IF fs = <<>> THEN x
    ELSE LET r == LeftToRight(SubSeq(fs, 1, Len(fs) - 1), x)
         IN  IF Failed(r) THEN r
             ELSE IF fs[Len(fs)] \in Funcs THEN Arith(fs[Len(fs)], r)
             ELSE Wrap(fs[Len(fs)], r)

Before == call.before
After == Deref(heap, call.m)
OnMap == call.kind # "none" /\ IsRef(call.m)

\* The path is absent: a key on the way is missing, or a value on the way is
\* not a map.
RECURSIVE Absent(_, _)
Absent(d, ks) ==
    \/ ~IsDict(d)
    \/ ks[1] \notin DOMAIN d.dict
    \/ Len(ks) > 1 /\ Absent(d.dict[ks[1]], Tail(ks))

\* A value that is there on the way to the last key is not a map.
RECURSIVE NonMapOnWay(_, _)
NonMapOnWay(d, ks) ==
    \/ ~IsDict(d)
    \/ Len(ks) > 1 /\ ks[1] \in DOMAIN d.dict /\ NonMapOnWay(d.dict[ks[1]], Tail(ks))

\* C13, for one of the two functions.
C13_For(kind) ==
    (OnMap /\ call.kind = kind /\ Absent(Before, call.ks)) =>
        /\ result = Ok(call.v)
        /\ After = Before

\* C13: get_in(M, P, default) on a path P that is absent in the map M (a key on
\* the way is missing, or a value on the way is not a map) returns the default,
\* raises nothing and leaves M unchanged; for get_in of core.py and of dict.py.
C13_AbsentDefault == C13_For("core.get_in") /\ C13_For("dict.get_in")

\* Neither path leads to the other.
Apart(p, q) == ~IsPrefix(p, q) /\ ~IsPrefix(q, p)

\* C14: when assoc_in(M, P, v) succeeds, get_in of the result at P is v, every
\* level on the way is a map, a level that was missing holding the next key
\* alone, and every location that is not on P keeps its value.
C14_RoundTrip ==
    (OnMap /\ call.kind = "assoc_in" /\ result.st = "ok") =>
        /\ result.v = call.m
        /\ get_in(After, call.ks, None) = call.v
        /\ \A i \in 1..(Len(call.ks) - 1) :
              LET pre == SubSeq(call.ks, 1, i)
                  lvl == get_in(After, pre, None)
              IN  /\ IsDict(lvl)
                  /\ Absent(Before, pre) => DOMAIN lvl.dict = {call.ks[i + 1]}
        /\ \A q \in Paths, d \in Defaults :
              Apart(q, call.ks) => get_in(After, q, d) = get_in(Before, q, d)

C14_Witness ==
    /\ OnMap /\ call.kind = "assoc_in" /\ result.st = "ok"
    /\ call.ks = <<"a", "b", "a">> /\ call.v = IntV(1)
    /\ Before = DictV([k \in {"b"} |-> Leaf])
    /\ After = DictV([k \in {"a", "b"} |->
                        IF k = "b" THEN Leaf
                        ELSE DictV([x \in {"b"} |-> DictV([y \in {"a"} |-> IntV(1)])])])

\* C15: assoc_in and update_in through a value that is not a map (on the way, or
\* the root itself) fail with TypeError and leave the map with exactly the
\* values it held.
C15_TypeMismatch ==
    (call.kind \in {"assoc_in", "update_in"} /\ NonMapOnWay(Before, call.ks)) =>
        /\ result = Raised("TypeError")
        /\ After = Before

\* C16: get_in(dissoc_in(M, P), P) is the default for every map M and path P;
\* when a key on the way or the last key is missing, dissoc_in raises nothing
\* and returns M unchanged, no map having been created.
C16_Removed ==
    (OnMap /\ call.kind = "dissoc_in") =>
        /\ result = Ok(call.m)
        /\ \A d \in Defaults : dict_get_in(After, call.ks, d) = d
        /\ (Absent(Before, call.ks) /\ ~NonMapOnWay(Before, call.ks)) => After = Before

\* Two outcomes are the same value, or both are failures.
Agree(a, b) == a = b \/ (a.st = "raise" /\ b.st = "raise")

\* C19: core.get_in and dict.get_in give the same outcome (the same value, or
\* both fail) for every map, path and default, a value on the path that is not
\* a map included.
C19_SameOutcome ==
    /\ (OnMap /\ call.kind = "core.get_in") =>
          Agree(result, Outcome(dict_get_in(Before, call.ks, call.v)))
    /\ (OnMap /\ call.kind = "dict.get_in") =>
          Agree(result, Ok(get_in(Before, call.ks, call.v)))

====
